---- MODULE Spec2Model ----
(***************************************************************************)
(* fairseq2 native data layer: record_reader (record_reader.cc) reading    *)
(* delimiter-terminated records from a chunked byte stream, and            *)
(* count_data_source (count_data_source.cc) with its position tape.        *)
(*                                                                         *)
(* A byte is a small natural number, a memory_block is the sequence of its *)
(* bytes.  NL is the delimiter byte of the line-delimited strategy.        *)
(***************************************************************************)
EXTENDS Integers, Sequences, FiniteSets, TLC

\* ------------------------------------------------------------------ bounds
MaxLen == 4          \* longest input (concatenation of the stream's chunks)
MaxCount == 10       \* largest counter value a counting source may reach
MaxTape == 1         \* longest position tape
MaxStr == 4          \* longest string split (the examples apart)
MaxRecords == 5      \* most records returned under an arbitrary boundary strategy

\* --------------------------------------------------------------- constants
NL == 0              \* the delimiter byte '\n'
NoOffset == -1       \* std::nullopt for std::optional<std::size_t>

Bytes == {NL, 1, 2}

\* The stream of the worked example: ["ab", "c\nde", "f\n"], a=1 .. f=6.
ExampleChunks == << <<1, 2>>, <<3, NL, 4, 5>>, <<6, NL>> >>

VARIABLES
    \* Chunked stream (external collaborator)
    chunks,             \* the chunks the stream delivers, in order
    pos,                \* number of chunks already delivered since reset
    \* record_reader fields
    current_chunk_,
    previous_chunks_,
    record_length_,
    record_end_offset_,
    \* locals of load_next_record and the position inside next()
    pc,                 \* "idle" | "find" | "read" | "ready"
    first_chunk,
    \* what the caller of next() observed
    result,             \* "none" | "record" | "eos" | "error"
    err_bytes,          \* byte count in the last record_error message
    out,                \* records returned since construction / last reset
    path,               \* "none" | "share" | "copy": how the last record was built
    span,               \* stream chunks holding bytes of the last record
    pending,            \* bytes received since the end of the last returned record
    pending_at_end,     \* value of pending when the last eos / error was decided
    was_reset,          \* reset() has been called
    failed,             \* a record_error was thrown since construction / last reset
    heap_overflow,      \* copy_split_record wrote past the buffer it allocated
    fresh_done,         \* the drain of the freshly constructed reader has ended
    fresh_out,          \* the records that first drain returned
    fresh_result,       \* and how it ended
    call_log,           \* the strategy and stream calls of the current / last next()
    prev_result,        \* how the call before the current / last one ended
    \* count_data_source instances and the position tape
    cds,                \* per instance: start_, counter_, field_name_
    tape,               \* values recorded so far
    ttype,              \* the type of each value on the tape
    reload_failed,      \* the last operation was a reload_position that threw:
                        \* the instance and its counter before the call
    cursor,             \* number of tape values already read
    produced,           \* per instance: values returned since construction,
                        \* reset() or reload_position()
    loaded,             \* per instance: value its last reload_position read
    recinfo,            \* per tape value: the instance that recorded it and has
                        \* not moved since, if any
    sync,               \* an instance reloaded what another had just recorded
    \* immutable_string::split
    s_str,              \* the bytes of the string being split
    s_sep,              \* the separator
    s_form,             \* "vector" | "callback": which overload was called
    s_offset,           \* local offset
    s_idx,              \* local char_idx
    s_calls,            \* the views handed to the handler, in order
    s_vec,              \* the vector split(separator) returned
    s_pc                \* "idle" | "loop" | "done"

rvars == <<chunks, pos, current_chunk_, previous_chunks_, record_length_,
           record_end_offset_, pc, first_chunk, result, err_bytes, out, path,
           span, pending, pending_at_end, was_reset, failed, heap_overflow,
           fresh_done, fresh_out, fresh_result, call_log, prev_result>>

cvars == <<cds, tape, ttype, reload_failed, cursor, produced, loaded, recinfo, sync>>

svars == <<s_str, s_sep, s_form, s_offset, s_idx, s_calls, s_vec, s_pc>>

vars == <<rvars, cvars, svars>>

\* ----------------------------------------------------------------- helpers
RECURSIVE Concat(_)
Concat(ss) == IF ss = <<>> THEN <<>> ELSE Head(ss) \o Concat(Tail(ss))

Strings(n) == UNION {[1..k -> Bytes] : k \in 0..n}

\* Every way of cutting s into non-empty chunks.
RECURSIVE ChunkingsOf(_)
ChunkingsOf(s) ==
    IF s = <<>> THEN {<<>>}
    ELSE UNION {{<<SubSeq(s, 1, k)>> \o r : r \in ChunkingsOf(SubSeq(s, k + 1, Len(s)))}
                    : k \in 1..Len(s)}

\* A stream that reports "no data" once (an empty block) before chunk i.
WithEmptyBefore(cs, i) == SubSeq(cs, 1, i - 1) \o <<<<>>>> \o SubSeq(cs, i, Len(cs))

\* The streams over the given inputs: every cut into non-empty chunks, and
\* every such cut with one empty block before one of its chunks.
StreamsOf(inputs) ==
    LET plain == UNION {ChunkingsOf(s) : s \in inputs}
    IN  plain \cup UNION {{WithEmptyBefore(cs, i) : i \in 1..Len(cs)} : cs \in plain}

Streams == StreamsOf(Strings(MaxLen)) \cup {ExampleChunks}

\* Inputs whose bytes are all different: 1, 2, ..., k.
NumberedInputs == {[i \in 1..k |-> i] : k \in 0..MaxLen}

NumberedStreams == StreamsOf(NumberedInputs)

\* ------------------------------------------------------- memory_block views
\* A sub-range request is valid when it lies inside the block.
InRange(block, offset, n) == offset + n <= Len(block)

share_first(block, n) == SubSeq(block, 1, n)

share_slice(block, offset) == SubSeq(block, offset + 1, Len(block))

\* ------------------------------------------------------------ chunked stream
StreamHasChunk == pos < Len(chunks)

read_chunk == IF StreamHasChunk THEN chunks[pos + 1] ELSE <<>>

\* ------------------------------------------- line-delimited boundary strategy
\* Offset of the first delimiter plus one, or NoOffset.
find_record_end(chunk, first) ==
    IF \E i \in 1..Len(chunk) : chunk[i] = NL
    THEN CHOOSE i \in 1..Len(chunk) :
             /\ chunk[i] = NL
             /\ \A j \in 1..(i - 1) : chunk[j] # NL
    ELSE NoOffset

\* Any strategy that keeps to its contract: not found, or an offset K with
\* K <= chunk length.
AnyOffsets(chunk) == {NoOffset} \cup (0..Len(chunk))

\* ------------------------------------------------------------- record_reader
\* The reader as constructed; the stream is still to be chosen.
ReaderFields ==
    /\ pos = 0
    /\ current_chunk_ = <<>>
    /\ previous_chunks_ = <<>>
    /\ record_length_ = 0
    /\ record_end_offset_ = 0
    /\ pc = "idle"
    /\ first_chunk = TRUE
    /\ result = "none"
    /\ err_bytes = 0
    /\ out = <<>>
    /\ path = "none"
    /\ span = 0
    /\ pending = 0
    /\ pending_at_end = 0
    /\ was_reset = FALSE
    /\ failed = FALSE
    /\ heap_overflow = FALSE
    /\ call_log = <<>>
    /\ prev_result = "none"

\* The first drain is recorded (follow), or is not.
FirstDrain(follow) ==
    /\ fresh_done = ~follow
    /\ fresh_out = <<>>
    /\ fresh_result = "none"

ReaderInit == chunks \in Streams /\ ReaderFields /\ FirstDrain(TRUE)

BeginNext_keep_length ==
    /\ pc = "idle"
    /\ first_chunk' = TRUE
    /\ pc' = "find"
    /\ result' = "none"
    /\ call_log' = <<>>
    /\ prev_result' = result
    /\ UNCHANGED <<chunks, pos, current_chunk_, previous_chunks_, record_length_,
                   record_end_offset_, err_bytes, out, path, span, pending,
                   pending_at_end, was_reset, failed, heap_overflow, fresh_done,
                   fresh_out, fresh_result>>

\* next() is entered: load_next_record clears the running length.
BeginNext ==
    /\ pc = "idle"
    /\ record_length_' = 0
    /\ first_chunk' = TRUE
    /\ pc' = "find"
    /\ result' = "none"
    /\ call_log' = <<>>
    /\ prev_result' = result
    /\ UNCHANGED <<chunks, pos, current_chunk_, previous_chunks_, record_end_offset_,
                   err_bytes, out, path, span, pending, pending_at_end, was_reset,
                   failed, heap_overflow, fresh_done, fresh_out, fresh_result>>

\* The strategy was asked about the current chunk and answered off.
FindEvent(off) ==
    [op |-> "find", first |-> first_chunk, len |-> Len(current_chunk_), ans |-> off]

\* read_chunk was called and returned a block of n bytes.
ReadEvent(n) == [op |-> "read", len |-> n]

\* A loop that reads a chunk before it looks at the one it holds.
record_end_found_later(off) == off # NoOffset /\ ~first_chunk

\* The loop of load_next_record ends when the strategy's answer off is an offset.
record_end_found(off) == off # NoOffset

\* The loop condition of load_next_record, and the code after the loop, when
\* the strategy answers off.
FindRecordEndAt(off) ==
    /\ pc = "find"
    /\ IF record_end_found(off)
       THEN /\ record_length_' = record_length_ + off
            /\ record_end_offset_' = off
            /\ pc' = "ready"
       ELSE /\ pc' = "read"
            /\ UNCHANGED <<record_length_, record_end_offset_>>
    /\ call_log' = Append(call_log, FindEvent(off))
    /\ UNCHANGED prev_result
    /\ UNCHANGED <<chunks, pos, current_chunk_, previous_chunks_, first_chunk, result,
                   err_bytes, out, path, span, pending, pending_at_end, was_reset,
                   failed, heap_overflow, fresh_done, fresh_out, fresh_result>>

\* An empty block always taken for the end of data.
no_partial_record_always == TRUE

no_partial_record_prev == previous_chunks_ = <<>>

\* Line 59: no partial record is stored from a previous call.
no_partial_record == current_chunk_ = <<>>

\* Line 70: the current chunk joins the previous chunks.
push_previous == Append(previous_chunks_, current_chunk_)

\* The loop body of load_next_record.
ReadChunk ==
    /\ pc = "read"
    /\ LET next_chunk == read_chunk
       IN  /\ pos' = IF StreamHasChunk THEN pos + 1 ELSE pos
           /\ IF next_chunk = <<>>
              THEN /\ IF no_partial_record
                      THEN result' = "eos" /\ UNCHANGED <<err_bytes, failed>>
                      ELSE /\ result' = "error"
                           /\ err_bytes' = Len(current_chunk_)
                           /\ failed' = TRUE
                   /\ pc' = "idle"
                   /\ pending_at_end' = pending
                   /\ IF ~was_reset /\ ~fresh_done
                      THEN /\ fresh_done' = TRUE
                           /\ fresh_out' = out
                           /\ fresh_result' = result'
                      ELSE UNCHANGED <<fresh_done, fresh_out, fresh_result>>
                   /\ UNCHANGED <<record_length_, previous_chunks_, current_chunk_,
                                  first_chunk, pending>>
              ELSE /\ record_length_' = record_length_ + Len(current_chunk_)
                   /\ previous_chunks_' = push_previous
                   /\ current_chunk_' = next_chunk
                   /\ first_chunk' = FALSE
                   /\ pending' = pending + Len(next_chunk)
                   /\ pc' = "find"
                   /\ UNCHANGED <<result, err_bytes, pending_at_end, failed,
                                  fresh_done, fresh_out, fresh_result>>
    /\ call_log' = Append(call_log, ReadEvent(Len(read_chunk)))
    /\ UNCHANGED <<chunks, record_end_offset_, out, path, span, was_reset,
                   heap_overflow, prev_result>>

\* Bytes the two copies of copy_split_record write, in order.
copied_bytes ==
    Concat(previous_chunks_) \o SubSeq(current_chunk_, 1, record_end_offset_)

copy_split_record_no_prev == SubSeq(current_chunk_, 1, record_end_offset_)

\* The block returned is the one allocated: record_length_ bytes long.
copy_split_record == SubSeq(copied_bytes, 1, record_length_)

\* The copies write past the end of the allocated buffer.
CopyOverflows == previous_chunks_ # <<>> /\ Len(copied_bytes) > record_length_

extract_record_excl ==
    IF previous_chunks_ = <<>>
    THEN share_first(current_chunk_, record_length_ - 1)
    ELSE copy_split_record

extract_record ==
    IF previous_chunks_ = <<>>
    THEN share_first(current_chunk_, record_length_)
    ELSE copy_split_record

\* share_first raises OutOfRange instead of returning a block.
ExtractOutOfRange ==
    previous_chunks_ = <<>> /\ ~InRange(current_chunk_, 0, record_length_)

move_to_next_record_len == share_slice(current_chunk_, record_length_)

move_to_next_record == share_slice(current_chunk_, record_end_offset_)

\* share_slice raises OutOfRange instead of returning a block.
MoveOutOfRange == ~InRange(current_chunk_, record_end_offset_, 0)

\* Number of stream chunks that hold at least one byte of the record found.
ChunksOfRecord ==
    Cardinality({i \in 1..Len(previous_chunks_) : previous_chunks_[i] # <<>>})
        + (IF record_end_offset_ > 0 THEN 1 ELSE 0)

\* The rest of next() once load_next_record returned true.
ReturnRecord ==
    /\ pc = "ready"
    /\ IF ExtractOutOfRange \/ MoveOutOfRange
       THEN \* the exception leaves next(); nothing after the throw has run
            /\ result' = "out_of_range"
            /\ pc' = "idle"
            /\ UNCHANGED <<out, path, span, current_chunk_, previous_chunks_,
                           pending, heap_overflow>>
       ELSE /\ out' = Append(out, extract_record)
            /\ path' = IF previous_chunks_ = <<>> THEN "share" ELSE "copy"
            /\ span' = ChunksOfRecord
            /\ current_chunk_' = move_to_next_record
            /\ previous_chunks_' = <<>>
            /\ pending' = Len(current_chunk_) - record_end_offset_
            /\ result' = "record"
            /\ heap_overflow' = (heap_overflow \/ CopyOverflows)
            \* Writing past the buffer is undefined: the call may return or
            \* the process may die.
            /\ pc' \in (IF CopyOverflows THEN {"idle", "crashed"} ELSE {"idle"})
    /\ UNCHANGED <<chunks, pos, record_length_, record_end_offset_, first_chunk,
                   err_bytes, pending_at_end, was_reset, failed, fresh_done,
                   fresh_out, fresh_result, call_log, prev_result>>

Reset_keep_chunk ==
    /\ pc = "idle"
    /\ previous_chunks_' = <<>>
    /\ pos' = 0
    /\ out' = <<>>
    /\ pending' = 0
    /\ result' = "none"
    /\ was_reset' = TRUE
    /\ failed' = FALSE
    /\ err_bytes' = 0
    /\ path' = "none"
    /\ span' = 0
    /\ pending_at_end' = 0
    /\ call_log' = <<>>
    /\ prev_result' = "none"
    /\ UNCHANGED <<chunks, current_chunk_, record_length_, record_end_offset_, pc,
                   first_chunk, heap_overflow, fresh_done, fresh_out, fresh_result>>

Reset ==
    /\ pc = "idle"
    /\ current_chunk_' = <<>>
    /\ previous_chunks_' = <<>>
    /\ pos' = 0
    /\ out' = <<>>
    /\ pending' = 0
    /\ result' = "none"
    /\ was_reset' = TRUE
    /\ failed' = FALSE
    \* what the caller saw of earlier calls is forgotten
    /\ err_bytes' = 0
    /\ path' = "none"
    /\ span' = 0
    /\ pending_at_end' = 0
    /\ call_log' = <<>>
    /\ prev_result' = "none"
    /\ UNCHANGED <<chunks, record_length_, record_end_offset_, pc, first_chunk,
                   heap_overflow, fresh_done, fresh_out, fresh_result>>

\* The line-delimited strategy is asked.
FindRecordEnd == FindRecordEndAt(find_record_end(current_chunk_, first_chunk))

\* Some strategy is asked.
FindRecordEndAny == \E off \in AnyOffsets(current_chunk_) : FindRecordEndAt(off)

\* The specification of the record reader leaves the counting sources out.
CountIdle ==
    /\ cds = <<>>
    /\ tape = <<>>
    /\ ttype = <<>>
    /\ reload_failed = <<>>
    /\ cursor = 0
    /\ produced = <<>>
    /\ loaded = <<>>
    /\ recinfo = <<>>
    /\ sync = <<>>

\* ... and the string being split.
SplitIdle ==
    /\ s_str = <<>>
    /\ s_sep = 0
    /\ s_form = "callback"
    /\ s_offset = 0
    /\ s_idx = 0
    /\ s_calls = <<>>
    /\ s_vec = <<>>
    /\ s_pc = "idle"

Init == ReaderInit /\ CountIdle /\ SplitIdle

Next ==
    \/ BeginNext /\ UNCHANGED <<cvars, svars>>
    \/ FindRecordEnd /\ UNCHANGED <<cvars, svars>>
    \/ ReadChunk /\ UNCHANGED <<cvars, svars>>
    \/ ReturnRecord /\ UNCHANGED <<cvars, svars>>
    \/ Reset /\ UNCHANGED <<cvars, svars>>

Spec == Init /\ [][Next]_vars

\* The reader under an arbitrary boundary strategy.  A strategy may answer 0
\* for ever, so the caller stops after MaxRecords records.
InitAny ==
    /\ chunks \in NumberedStreams
    /\ ReaderFields /\ FirstDrain(FALSE)
    /\ CountIdle /\ SplitIdle

NextAny ==
    \/ Len(out) < MaxRecords /\ BeginNext /\ UNCHANGED <<cvars, svars>>
    \/ FindRecordEndAny /\ UNCHANGED <<cvars, svars>>
    \/ ReadChunk /\ UNCHANGED <<cvars, svars>>
    \/ ReturnRecord /\ UNCHANGED <<cvars, svars>>
    \/ Reset /\ UNCHANGED <<cvars, svars>>

SpecAny == InitAny /\ [][NextAny]_vars

\* The reader called again and again, never reset, on a stream of finitely
\* many non-empty chunks, with a strategy whose offsets are at least 1 (every
\* record takes a byte).  A call once made runs to its end and the caller
\* keeps calling: both are the weak fairness of the reader's steps.
PlainStreams == UNION {ChunkingsOf(s) : s \in NumberedInputs}

PositiveOffsets(chunk) == AnyOffsets(chunk) \ {0}

FindRecordEndPositive ==
    \E off \in PositiveOffsets(current_chunk_) : FindRecordEndAt(off)

InitDrain ==
    /\ chunks \in PlainStreams
    /\ ReaderFields /\ FirstDrain(FALSE)
    /\ CountIdle /\ SplitIdle

NextDrain ==
    \/ BeginNext /\ UNCHANGED <<cvars, svars>>
    \/ FindRecordEndPositive /\ UNCHANGED <<cvars, svars>>
    \/ ReadChunk /\ UNCHANGED <<cvars, svars>>
    \/ ReturnRecord /\ UNCHANGED <<cvars, svars>>

SpecDrain == InitDrain /\ [][NextDrain]_vars /\ WF_vars(NextDrain)

\* --------------------------------------------------------- count_data_source
Instances == {1, 2}

Starts == {5, 6}

NoField == "none"

FieldNames == {NoField, "idx"}

\* An absent value is the empty sequence, a present value v is <<v>>.
None == <<>>

Some(v) == <<v>>

\* In place of a reloaded value: the reload was followed by a reset().
ResetAfterReload == <<"reloaded", "reset">>

\* The data item next() returns: the counter, or a dict with one entry.
Item(name, n) == IF name = NoField THEN <<n>> ELSE <<name, n>>

\* The counter carried by a data item.
ItemCounter(item) == item[Len(item)]

CountInit ==
    /\ cds \in {[i \in Instances |->
                    [start_ |-> st[i], counter_ |-> st[i], field_name_ |-> fn[i]]]
                 : st \in [Instances -> Starts], fn \in [Instances -> FieldNames]}
    /\ tape = <<>>
    /\ ttype = <<>>
    /\ reload_failed = <<>>
    /\ cursor = 0
    /\ produced = [i \in Instances |-> <<>>]
    /\ loaded = [i \in Instances |-> None]
    /\ recinfo = <<>>
    /\ sync = <<>>

\* Tape values recorded by instance i no longer describe where i stands.
Stale(i) == [k \in 1..Len(recinfo) |-> IF recinfo[k] = Some(i) THEN None ELSE recinfo[k]]

\* counter_++ as an expression: the value returned to the caller.
post_increment(i) == cds[i].counter_

CountNext(i) ==
    /\ cds[i].counter_ < MaxCount
    /\ produced' = [produced EXCEPT
                       ![i] = Append(@, Item(cds[i].field_name_, post_increment(i)))]
    /\ cds' = [cds EXCEPT ![i].counter_ = @ + 1]
    /\ recinfo' = Stale(i)
    /\ reload_failed' = <<>>
    /\ UNCHANGED <<tape, ttype, cursor, loaded, sync>>

\* A reset() that returns to the position last reloaded.
reset_counter_reloaded(i) ==
    IF Len(loaded[i]) = 1 THEN loaded[i][1] ELSE cds[i].start_

\* The counter reset() stores.
reset_counter(i) == cds[i].start_

CountReset(i) ==
    /\ cds' = [cds EXCEPT ![i].counter_ = reset_counter(i)]
    /\ produced' = [produced EXCEPT ![i] = <<>>]
    /\ loaded' = [loaded EXCEPT ![i] = IF @ = None THEN None ELSE ResetAfterReload]
    /\ recinfo' = Stale(i)
    /\ sync' = IF sync # <<>> /\ i \in {sync[1].orig, sync[1].rest} THEN <<>> ELSE sync
    /\ reload_failed' = <<>>
    /\ UNCHANGED <<tape, ttype, cursor>>

\* tape::record
tape_record(t, v) == Append(t, v)

\* tape::read<std::int64_t>: the next value in recording order.
tape_read(t, c) == t[c + 1]

recorded_value_prev(i) == cds[i].counter_ - 1

\* The value record_position hands to the tape.
recorded_value(i) == cds[i].counter_

RecordPosition(i) ==
    /\ Len(tape) < MaxTape
    /\ tape' = tape_record(tape, recorded_value(i))
    /\ ttype' = Append(ttype, "int64")
    /\ recinfo' = Append(recinfo, Some(i))
    /\ reload_failed' = <<>>
    /\ UNCHANGED <<cds, cursor, produced, loaded, sync>>

\* A source of another type records a string on the tape.
RecordString ==
    /\ Len(tape) < MaxTape
    /\ tape' = tape_record(tape, 0)
    /\ ttype' = Append(ttype, "string")
    /\ recinfo' = Append(recinfo, None)
    /\ reload_failed' = <<>>
    /\ UNCHANGED <<cds, cursor, produced, loaded, sync>>

reloaded_counter_next(v) == v + 1

\* The counter reload_position stores, given the value read from the tape.
reloaded_counter(v) == v

\* tape::read<std::int64_t> returns a value: there is a next value and it
\* is an integer.  Otherwise it throws.
tape_readable(c) == c < Len(tape) /\ ttype[c + 1] = "int64"

counter_after_throw_start(i) == cds[i].start_

\* Line 37: the read throws before the assignment to counter_ takes place.
counter_after_throw(i) == cds[i].counter_

ReloadPosition(i) ==
    IF tape_readable(cursor)
    THEN /\ LET v == tape_read(tape, cursor)
                r == recinfo[cursor + 1]
            IN  /\ cds' = [cds EXCEPT ![i].counter_ = reloaded_counter(v)]
                /\ loaded' = [loaded EXCEPT ![i] = Some(v)]
                /\ sync' = IF r # None /\ r # Some(i)
                           THEN <<[orig |-> r[1], rest |-> i, at |-> Len(produced[r[1]])]>>
                           ELSE IF sync # <<>> /\ i \in {sync[1].orig, sync[1].rest}
                                THEN <<>> ELSE sync
         /\ cursor' = cursor + 1
         /\ produced' = [produced EXCEPT ![i] = <<>>]
         /\ recinfo' = Stale(i)
         /\ reload_failed' = <<>>
         /\ UNCHANGED <<tape, ttype>>
    ELSE \* the exception of the tape leaves reload_position
         /\ reload_failed' = <<[inst |-> i, before |-> cds[i].counter_]>>
         /\ cds' = [cds EXCEPT ![i].counter_ = counter_after_throw(i)]
         /\ UNCHANGED <<tape, ttype, cursor, produced, loaded, recinfo, sync>>

\* The caller takes a new, empty tape for the next checkpoint.
NewTape ==
    /\ tape # <<>>
    /\ tape' = <<>>
    /\ ttype' = <<>>
    /\ cursor' = 0
    /\ recinfo' = <<>>
    /\ reload_failed' = <<>>
    /\ UNCHANGED <<cds, produced, loaded, sync>>

\* The record reader stands still in the specification of the counting sources.
ReaderIdle ==
    /\ chunks = <<>>
    /\ pos = 0
    /\ current_chunk_ = <<>>
    /\ previous_chunks_ = <<>>
    /\ record_length_ = 0
    /\ record_end_offset_ = 0
    /\ pc = "idle"
    /\ first_chunk = TRUE
    /\ result = "none"
    /\ err_bytes = 0
    /\ out = <<>>
    /\ path = "none"
    /\ span = 0
    /\ pending = 0
    /\ pending_at_end = 0
    /\ was_reset = FALSE
    /\ failed = FALSE
    /\ heap_overflow = FALSE
    /\ fresh_done = FALSE
    /\ fresh_out = <<>>
    /\ fresh_result = "none"
    /\ call_log = <<>>
    /\ prev_result = "none"

InitCount == ReaderIdle /\ CountInit /\ SplitIdle

NextCount ==
    \/ \E i \in Instances : CountNext(i) /\ UNCHANGED <<rvars, svars>>
    \/ \E i \in Instances : CountReset(i) /\ UNCHANGED <<rvars, svars>>
    \/ \E i \in Instances : RecordPosition(i) /\ UNCHANGED <<rvars, svars>>
    \/ \E i \in Instances :
           tape_readable(cursor) /\ ReloadPosition(i) /\ UNCHANGED <<rvars, svars>>
    \/ NewTape /\ UNCHANGED <<rvars, svars>>

\* Checkpoints taken and restored by sources of one type: every tape handed
\* to reload_position holds the integer a counting source recorded.
SpecCount == InitCount /\ [][NextCount]_vars

\* Two counting sources built without a field name.
TapeInit ==
    /\ CountInit
    /\ \A i \in Instances : cds[i].field_name_ = NoField

InitTape == ReaderIdle /\ TapeInit /\ SplitIdle

NextTape ==
    \/ \E i \in Instances : CountNext(i) /\ UNCHANGED <<rvars, svars>>
    \/ \E i \in Instances : CountReset(i) /\ UNCHANGED <<rvars, svars>>
    \/ \E i \in Instances : RecordPosition(i) /\ UNCHANGED <<rvars, svars>>
    \/ \E i \in Instances : ReloadPosition(i) /\ UNCHANGED <<rvars, svars>>
    \/ RecordString /\ UNCHANGED <<rvars, svars>>
    \/ NewTape /\ UNCHANGED <<rvars, svars>>

\* Any tape may be handed to reload_position: an empty one, one already read
\* to its end, one recorded by a source of another type.
SpecTape == InitTape /\ [][NextTape]_vars

\* ---------------------------------------------------- immutable_string::split
\* A view is a sub-range of the string's storage: [off, len].
View(off, len) == [off |-> off, len |-> len]

ViewBytes(v) == SubSeq(s_str, v.off + 1, v.off + v.len)

SplitBytes == {1, 2, 3}

SplitStrings(n) == UNION {[1..k -> SplitBytes] : k \in 0..n}

\* "xayaz" and "aaxa" with a=1, x=2, y=3, z=4.
SplitExamples == {<<2, 1, 3, 1, 4>>, <<1, 1, 2, 1>>}

SplitInit ==
    /\ s_str \in SplitStrings(MaxStr) \cup SplitExamples
    /\ s_sep \in SplitBytes
    /\ s_form \in {"vector", "callback"}
    /\ s_offset = 0
    /\ s_idx = 0
    /\ s_calls = <<>>
    /\ s_vec = <<>>
    /\ s_pc = "loop"

\* storage_.share_slice(offset, char_idx - offset)
split_part(off, idx) == View(off, idx - off)

\* remove_prefix(offset): the view from offset to the end.
remove_prefix(off) == View(off, Len(s_str) - off)

part_wanted_always(off, idx) == TRUE

\* Line 59: a part is handed over only if it is not empty.
part_wanted(off, idx) == off # idx

\* One iteration of the for loop.
SplitIter ==
    /\ s_pc = "loop"
    /\ s_idx < Len(s_str)
    /\ IF s_str[s_idx + 1] = s_sep
       THEN /\ s_calls' = IF part_wanted(s_offset, s_idx)
                          THEN Append(s_calls, split_part(s_offset, s_idx))
                          ELSE s_calls
            /\ s_offset' = s_idx + 1
       ELSE UNCHANGED <<s_calls, s_offset>>
    /\ s_idx' = s_idx + 1
    /\ UNCHANGED <<s_str, s_sep, s_form, s_vec, s_pc>>

\* The loop has ended: the code after it, and the return of the vector form.
SplitTail ==
    /\ s_pc = "loop"
    /\ s_idx = Len(s_str)
    /\ s_calls' = IF s_offset # Len(s_str)
                  THEN Append(s_calls, remove_prefix(s_offset))
                  ELSE s_calls
    /\ s_vec' = IF s_form = "vector" THEN s_calls' ELSE s_vec
    /\ s_pc' = "done"
    /\ UNCHANGED <<s_str, s_sep, s_form, s_offset, s_idx>>

InitSplit == ReaderIdle /\ CountIdle /\ SplitInit

NextSplit ==
    \/ SplitIter /\ UNCHANGED <<rvars, cvars>>
    \/ SplitTail /\ UNCHANGED <<rvars, cvars>>

SpecSplit == InitSplit /\ [][NextSplit]_vars

\* ======================================================= record reader claims
Input == Concat(chunks)

\* The stream delivers non-empty chunks until its end.
NonEmptyChunks == \A i \in 1..Len(chunks) : chunks[i] # <<>>

EndsAtBoundary(s) == s = <<>> \/ s[Len(s)] = NL

\* A drain has ended: the last next() returned end-of-sequence or failed.
Drained == pc = "idle" /\ result \in {"eos", "error"}

HasNL(s) == \E i \in 1..Len(s) : s[i] = NL

\* The delimiter-terminated pieces of s, in order; a function of s alone.
RECURSIVE LineRecords(_)
LineRecords(s) ==
    IF ~HasNL(s) THEN <<>>
    ELSE LET k == CHOOSE i \in 1..Len(s) : s[i] = NL /\ \A j \in 1..(i - 1) : s[j] # NL
         IN  <<SubSeq(s, 1, k)>> \o LineRecords(SubSeq(s, k + 1, Len(s)))

LastRecord == out[Len(out)]

\* C1: for an input cut into non-empty chunks that ends at a record boundary,
\* the records of a full drain, concatenated in order, are the input.
C1_DrainConcatIsInput ==
    (NonEmptyChunks /\ EndsAtBoundary(Input) /\ pc = "idle" /\ result = "eos")
        => Concat(out) = Input

\* C1 witness: an input of four bytes delivered one byte per chunk, drained to
\* end-of-sequence with two records.
C1_Witness ==
    /\ NonEmptyChunks /\ Len(chunks) >= 4
    /\ \A i \in 1..Len(chunks) : Len(chunks[i]) = 1
    /\ pc = "idle" /\ result = "eos" /\ Len(out) >= 2
    /\ Concat(out) = Input

\* C2 as stated: a returned record holds no delimiter byte, and the example
\* stream drains to "abc", "def".
C2_RecordExcludesDelimiter ==
    /\ (pc = "idle" /\ result = "record") => ~HasNL(LastRecord)
    /\ (chunks = ExampleChunks /\ pc = "idle" /\ result = "eos")
           => out = << <<1, 2, 3>>, <<4, 5, 6>> >>

\* C2 amended: on a reader that has thrown no record_error since construction
\* or its last reset(), a returned record is the
\* bytes up to and including the delimiter, which is its last and only
\* delimiter byte; the example stream drains to "abc\n", "def\n".
C2_RecordIncludesDelimiter ==
    /\ (pc = "idle" /\ result = "record" /\ ~failed)
           => /\ Len(LastRecord) >= 1
              /\ LastRecord[Len(LastRecord)] = NL
              /\ \A j \in 1..(Len(LastRecord) - 1) : LastRecord[j] # NL
    /\ (chunks = ExampleChunks /\ pc = "idle" /\ result = "eos")
           => out = << <<1, 2, 3, NL>>, <<4, 5, 6, NL>> >>

\* C2 witness: the example stream drained to end-of-sequence.
C2_Witness ==
    chunks = ExampleChunks /\ pc = "idle" /\ result = "eos" /\ Len(out) = 2

\* C3: the records a full drain returns and the way it ends are determined by
\* the input alone, whatever the cut into non-empty chunks.
C3_ChunkingInvisible ==
    (NonEmptyChunks /\ Drained /\ ~was_reset)
        => /\ out = LineRecords(Input)
           /\ result = (IF EndsAtBoundary(Input) THEN "eos" ELSE "error")

\* C3 witness: a drain over three or more chunks whose last record spanned
\* chunks and which ended in a record_error.
C3_Witness ==
    /\ NonEmptyChunks /\ Len(chunks) >= 3 /\ ~was_reset
    /\ Drained /\ result = "error" /\ Len(out) >= 1 /\ span >= 2

\* C4: a record whose bytes lie in one stream chunk is returned by sharing,
\* and the copy path is taken only for a record spanning two or more chunks.
C4_SingleChunkZeroCopy ==
    (pc = "idle" /\ result = "record" /\ ~failed)
        => /\ span <= 1 => path = "share"
           /\ path = "copy" => span >= 2

\* C5: the byte count of a record_error is the number of bytes received since
\* the end of the last returned record.
C5_ReportsWholePartialRecord ==
    (pc = "idle" /\ result = "error") => err_bytes = pending_at_end

\* C6: at end of input next() returns end-of-sequence iff no byte was received
\* after the last returned record, and fails iff at least one was; an empty
\* stream gives end-of-sequence, an input ending at a boundary never fails.
C6_EosIffNothingBuffered ==
    /\ (pc = "idle" /\ result = "eos") => pending_at_end = 0
    /\ (pc = "idle" /\ result = "error") => pending_at_end >= 1
    /\ (chunks = <<>> /\ pc = "idle" /\ result # "none") => result = "eos"
    /\ (NonEmptyChunks /\ EndsAtBoundary(Input)) => result # "error"

\* C6 witness: end-of-sequence reached right after a record that ended with
\* the last byte of the last chunk.
C6_Witness ==
    /\ NonEmptyChunks /\ Input # <<>> /\ EndsAtBoundary(Input)
    /\ pc = "idle" /\ result = "eos" /\ Len(out) >= 1 /\ pending_at_end = 0

\* C7: after reset() a full drain returns what the drain of the fresh reader
\* returned and ends the same way.
C7_ResetReplays ==
    (was_reset /\ NonEmptyChunks /\ Drained)
        => /\ out = LineRecords(Input)
           /\ result = (IF EndsAtBoundary(Input) THEN "eos" ELSE "error")
           /\ fresh_done => (out = fresh_out /\ result = fresh_result)

\* C7 witness: the fresh reader was drained into a record_error, reset, and
\* drained again, with records returned both times.
C7_Witness ==
    /\ was_reset /\ NonEmptyChunks /\ Drained
    /\ fresh_done /\ fresh_result = "error" /\ Len(fresh_out) >= 1
    /\ Len(out) >= 1

\* ===================================================== counting source claims
Counters(items) == [k \in 1..Len(items) |-> ItemCounter(items[k])]

Min(a, b) == IF a <= b THEN a ELSE b

\* C9: once an instance has reloaded the position another instance of the same
\* configuration had just recorded, the values the two return from then on
\* agree, and the first value of the restored instance is the one the original
\* was about to return.
C9_RestoredContinuesOriginal ==
    sync # <<>> =>
        LET o == sync[1].orig
            r == sync[1].rest
            a == SubSeq(produced[o], sync[1].at + 1, Len(produced[o]))
            b == produced[r]
        IN  /\ cds[r].counter_ - Len(b) = cds[o].counter_ - Len(a)
            /\ cds[o].field_name_ = cds[r].field_name_
                   => \A k \in 1..Min(Len(a), Len(b)) : a[k] = b[k]

\* C9 witness: the original had returned values before recording, the restored
\* instance was built with another start value, and both have returned two
\* values since.
C9_Witness ==
    /\ sync # <<>>
    /\ sync[1].at >= 1
    /\ cds[sync[1].orig].start_ # cds[sync[1].rest].start_
    /\ cds[sync[1].orig].field_name_ = cds[sync[1].rest].field_name_
    /\ Len(produced[sync[1].orig]) >= sync[1].at + 2
    /\ Len(produced[sync[1].rest]) >= 2

\* An instance started at 5 that has returned 5, 6, 7 and then recorded.
RecordedAfter567(i) ==
    /\ tape # <<>>
    /\ recinfo[Len(recinfo)] = Some(i)
    /\ cds[i].start_ = 5
    /\ loaded[i] = None
    /\ Counters(produced[i]) = <<5, 6, 7>>

\* An instance whose reload read 7 returns 7, 8, 9, ...
Reloaded7Continues(j) ==
    loaded[j] = Some(7) => \A k \in 1..Len(produced[j]) : ItemCounter(produced[j][k]) = 7 + k - 1

\* C10 as stated: after 5, 6, 7 record_position writes 7.
C10_Records7 ==
    /\ \A i \in Instances : RecordedAfter567(i) => tape[Len(tape)] = 7
    /\ \A j \in Instances : Reloaded7Continues(j)

\* C10 amended: after 5, 6, 7 record_position writes 8, the value about to be
\* returned; an instance whose reload read 7 returns 7, 8, 9, ...
C10_Records8 ==
    /\ \A i \in Instances : RecordedAfter567(i) => tape[Len(tape)] = 8
    /\ \A j \in Instances : Reloaded7Continues(j)

\* C10 witness: one instance returned 5, 6, 7 and recorded 8, another reloaded
\* 7 and returned 7, 8, 9.
C10_Witness ==
    \E i, j \in Instances :
        /\ RecordedAfter567(i)
        /\ tape[Len(tape)] = 8
        /\ loaded[j] = Some(7)
        /\ Counters(produced[j]) = <<7, 8, 9>>

\* ================================================================ split claims
\* The maximal non-empty runs of s_str without the separator, as views.
Runs ==
    {v \in {View(o, l) : o \in 0..Len(s_str), l \in 1..Len(s_str)} :
        /\ v.off + v.len <= Len(s_str)
        /\ \A k \in (v.off + 1)..(v.off + v.len) : s_str[k] # s_sep
        /\ v.off = 0 \/ s_str[v.off] = s_sep
        /\ v.off + v.len = Len(s_str) \/ s_str[v.off + v.len + 1] = s_sep}

\* What the caller of split got: the vector, or the handler calls.
Delivered == IF s_form = "vector" THEN s_vec ELSE s_calls

\* C11: split delivers, left to right, exactly the maximal non-empty runs of
\* bytes without the separator, in the vector form and in the callback form;
\* "xayaz" split at 'a' gives "x", "y", "z" and "aaxa" gives "x".
C11_SplitYieldsMaximalRuns ==
    s_pc = "done" =>
        /\ {Delivered[k] : k \in 1..Len(Delivered)} = Runs
        /\ \A k \in 1..(Len(Delivered) - 1) : Delivered[k].off < Delivered[k + 1].off
        /\ \A k \in 1..Len(Delivered) :
               /\ ViewBytes(Delivered[k]) # <<>>
               /\ \A b \in 1..Delivered[k].len : ViewBytes(Delivered[k])[b] # s_sep
        /\ (s_str = <<2, 1, 3, 1, 4>> /\ s_sep = 1)
               => [k \in 1..Len(Delivered) |-> ViewBytes(Delivered[k])]
                      = <<<<2>>, <<3>>, <<4>>>>
        /\ (s_str = <<1, 1, 2, 1>> /\ s_sep = 1)
               => [k \in 1..Len(Delivered) |-> ViewBytes(Delivered[k])] = <<<<2>>>>
        /\ s_str = <<>> => Delivered = <<>>

\* C11 witness: the vector form has split "aaxa" at 'a'.
C11_Witness ==
    /\ s_pc = "done" /\ s_form = "vector"
    /\ s_str = <<1, 1, 2, 1>> /\ s_sep = 1
    /\ Len(s_vec) = 1

\* ======================================================= position tape claims
\* C12: a reload_position that finds no next value on the tape, or a value
\* that is not an integer, fails, and the counter keeps the value it had.
C12_FailedReloadKeepsCounter ==
    reload_failed # <<>>
        => /\ ~tape_readable(cursor)
           /\ cds[reload_failed[1].inst].counter_ = reload_failed[1].before

\* C12 witness: an instance that had returned values found a string on the
\* tape; its counter is where it was.
C12_Witness ==
    /\ reload_failed # <<>>
    /\ cursor < Len(tape) /\ ttype[cursor + 1] = "string"
    /\ Len(produced[reload_failed[1].inst]) >= 2
    /\ cds[reload_failed[1].inst].counter_ # cds[reload_failed[1].inst].start_

\* =============================================== claims for any strategy
\* C13: under any strategy that answers offsets within the chunk it examined,
\* when extraction and advance run the record end offset is within the
\* current chunk, on the sharing path so is the record length, and no
\* OutOfRange is raised.
C13_NoOutOfRange ==
    /\ result # "out_of_range"
    /\ pc = "ready"
           => /\ record_end_offset_ <= Len(current_chunk_)
              /\ previous_chunks_ = <<>> => record_length_ <= Len(current_chunk_)
              /\ ~ExtractOutOfRange /\ ~MoveOutOfRange

\* C13 witness: after a reset, a record that is a whole chunk has been
\* returned by sharing, the offset being the chunk's length.
C13_Witness ==
    /\ pc = "idle" /\ result = "record" /\ path = "share" /\ was_reset
    /\ record_end_offset_ >= 2
    /\ current_chunk_ = <<>>
    /\ Len(out) >= 2

\* ================================================ record assembly claims
\* C14: whenever extraction starts, the previous chunks followed by the first
\* record_end_offset_ bytes of the current chunk are exactly the record
\* returned, and record_length_ is the sum of the previous chunks' lengths
\* plus record_end_offset_.
C14_RecordIsChunksThenPrefix ==
    pc = "ready"
        => /\ record_length_ = Len(Concat(previous_chunks_)) + record_end_offset_
           /\ extract_record =
                  Concat(previous_chunks_) \o share_first(current_chunk_, record_end_offset_)

\* C18: the buffer of the copy path is exactly as large as the bytes copied
\* into it, also for a next() that follows a TruncatedRecord without a reset.
C18_CopyFillsBufferExactly ==
    /\ ~heap_overflow
    /\ pc = "ready" /\ previous_chunks_ # <<>> => Len(copied_bytes) = record_length_

\* ==================================================== stream access claims
\* The calls of the current next() are in order: a stream read follows a
\* strategy call that answered "not found", a call whose first strategy call
\* found a boundary makes no other call, and an empty block ends the call.
ReadsOnDemand ==
    /\ \A k \in 1..Len(call_log) :
           call_log[k].op = "read"
               => /\ k > 1
                  /\ call_log[k - 1].op = "find" /\ call_log[k - 1].ans = NoOffset
                  /\ call_log[k].len = 0
                         => /\ k = Len(call_log)
                            /\ pc = "idle" /\ result \in {"eos", "error"}
    /\ call_log # <<>> /\ call_log[1].ans # NoOffset => Len(call_log) = 1

\* The stream position moves only by a read inside next(), one chunk at a
\* time and forwards, or back to the start by reset().
PullsEachChunkOnce ==
    pos' # pos
        => \/ /\ pc = "read" /\ pos' = pos + 1
              /\ call_log' = Append(call_log, ReadEvent(Len(chunks[pos'])))
           \/ pos' = 0 /\ was_reset' /\ pc' = "idle" /\ call_log' = <<>>

\* C15: the reader reads from the stream only after the strategy found no
\* boundary in the current chunk, not at all when that chunk has one, never
\* again in a call once the stream returned an empty block, and between two
\* resets it pulls every chunk once.
C15_ReadsOnlyOnDemand == []ReadsOnDemand /\ [][PullsEachChunkOnce]_vars

\* C15 witness: after two chunks were pulled, a call returned a second record
\* from the chunk it held without any stream read.
C15_Witness ==
    /\ pc = "idle" /\ result = "record"
    /\ Len(call_log) = 1 /\ call_log[1].op = "find" /\ call_log[1].ans # NoOffset
    /\ pos = 2 /\ Len(out) >= 2

\* ======================================================= termination claim
\* A call makes at most one stream read per chunk still to come and one more,
\* each between two strategy calls, and every record takes a byte of input.
CallIsBounded ==
    /\ Len(call_log) <= 2 * (Len(chunks) + 1)
    /\ Len(out) <= Len(Input)

\* A call that has ended has one of the three outcomes.
ThreeOutcomes ==
    /\ pc \in {"idle", "find", "read", "ready"}
    /\ pc = "idle" /\ call_log # <<>> => result \in {"record", "eos", "error"}

\* C16: on a stream of finitely many non-empty chunks, with offsets of at
\* least 1, every next() call ends, as a record, end-of-sequence or
\* TruncatedRecord, and repeated calls reach end-of-sequence or
\* TruncatedRecord after finitely many records.
C16_CallsTerminate ==
    /\ [](CallIsBounded /\ ThreeOutcomes)
    /\ (pc # "idle") ~> (pc = "idle")
    /\ <>Drained


\* ===================================================== first-chunk flag claim
\* The strategy calls of the current next() that examined a chunk with bytes.
ChunkCalls == {k \in 1..Len(call_log) : call_log[k].op = "find" /\ call_log[k].len > 0}

\* C17: in every next() call the strategy gets the first-chunk flag true for
\* the chunk that holds the first byte of the record, and false for every
\* later chunk, also when the reader starts the call with an empty chunk.
C17_FlagMarksFirstChunk ==
    \A k \in ChunkCalls :
        call_log[k].first <=> (\A j \in ChunkCalls : k <= j)

\* ================================================== end-of-sequence claim
\* The stream returned only empty blocks to the call that has just ended.
StreamStayedEmpty ==
    /\ pc = "idle" /\ call_log # <<>>
    /\ \A k \in 1..Len(call_log) : call_log[k].op = "read" => call_log[k].len = 0

\* C19: a next() that returned end-of-sequence leaves the current chunk and
\* the previous chunks empty, and the call after it, if the stream still
\* returns empty blocks, returns end-of-sequence again.
C19_EndOfSequenceIsStable ==
    /\ pc = "idle" /\ result = "eos"
           => current_chunk_ = <<>> /\ previous_chunks_ = <<>>
    /\ prev_result = "eos" /\ StreamStayedEmpty => result = "eos"

\* C19 witness: after two records the reader returned end-of-sequence, was
\* called again and returned end-of-sequence again.
C19_Witness ==
    /\ StreamStayedEmpty /\ prev_result = "eos" /\ result = "eos"
    /\ Len(out) = 2 /\ ~was_reset

\* ===================================================== counting source claim
\* The values instance i returned since its last reset() or reload_position.
Values(i) == Counters(produced[i])

\* C20: the counting source returns each time the previous value plus one,
\* whatever record_position calls lie between; its counter is the value the
\* next call returns; and since construction or reset(), also a reset() that
\* followed a reload_position, the values are start, start+1, ...
C20_CountsUpFromStartAfterReset ==
    \A i \in DOMAIN cds :
        /\ \A k \in 1..Len(Values(i)) - 1 : Values(i)[k + 1] = Values(i)[k] + 1
        /\ Values(i) # <<>> => cds[i].counter_ = Values(i)[Len(Values(i))] + 1
        /\ loaded[i] \in {None, ResetAfterReload}
               => /\ Values(i) = <<>> => cds[i].counter_ = cds[i].start_
                  /\ Values(i) # <<>> => Values(i)[1] = cds[i].start_

\* C20 witness: a source with start 5 reloaded another position, was reset,
\* and returned 5, 6, 7 with a record_position between the calls.
C20_Witness ==
    \E i \in DOMAIN cds :
        /\ cds[i].start_ = 5
        /\ loaded[i] = ResetAfterReload
        /\ Values(i) = <<5, 6, 7>>
        /\ recinfo # <<>> /\ tape = <<7>>

====
